---- MODULE Spec2Model ----
(***************************************************************************)
(* Model of wmayner/hill_tononi_synthesis:                                 *)
(*   src/nsdm_hill_tononi_Vp.py  - the script that builds the Hill-Tononi  *)
(*       network with the NEST topology module (layers, connection rules), *)
(*   src/nsdm_compile_multiple_NEST_simulations.py - the aggregation of    *)
(*       the per-run activity matrices.                                    *)
(*                                                                         *)
(* Units.  Lengths are integers in units of visSize / (2 N (N-1)), so that *)
(* the extent visSize is 2N(N-1), the grid spacing visSize/N is 2(N-1) and *)
(* dpc = visSize/(N-1) is 2N.  Probabilities are in 1/1000, weights and    *)
(* delays in 1/100.  A numpy draw rand() in [0,1) is one of the levels     *)
(* 0 .. NpLevels-1, level 0 being the value 0.0.                           *)
(***************************************************************************)
EXTENDS Integers, Sequences, FiniteSets, TLC

VARIABLES
    pc,          \* position of the build script
    isimBound,   \* whether the name isim is bound when line 99 is reached
    lambda_dg,   \* Params['lambda_dg']
    seed,        \* grng_seed of the NEST kernel
    npSeed,      \* state numpy's global generator was seeded with
    npDraws,     \* number of np.random.rand() calls made so far
    rate,        \* 'rate' of the RetinaNode model, in 1/NpLevels Hz
    layerProps,  \* the dictionary layerProps
    layers,      \* python names of the populations -> created layer
    nodes,       \* the NEST network: gid -> node
    nextLeaf,    \* position of the phase-initialisation comprehension
    phase,       \* retina gid -> arguments phaseInit was given
    phaseCalls,  \* log of the phaseInit invocations, in order
    connDict,    \* the rule dictionary that is updated in place
    ip,          \* index of the next statement of ConnectScript
    callLog,     \* the ConnectLayers calls made: layers and rule in effect
    edges,       \* the graph: edges tagged with the call that made them
    recorders,   \* the dictionary recorders
    detectors,   \* the dictionary detectors
    connected,   \* gids of the devices connected to the network
    run,         \* which build this is (1 or 2)
    prev,        \* what the first build produced
    all_sim,     \* aggregation: run -> entry -> 0/1
    neural_std,  \* aggregation: entry -> N^2 * variance
    results,     \* aggregation: the results dictionary
    folder_name, \* the string folder_name, as the run index formatted into it
    isim,        \* the loop variable of the simulation loop (0 before it)
    events,      \* what the retained spike detectors hold: the runs it is from
    written,     \* log of the saves: run, folder and the data written
    probe,       \* geometry at full size: a driver, a mask and what it holds
    files,       \* aggregation: the spike files found, in loading order
    nneurons,    \* aggregation: nneurons (0 before it is computed)
    loaded       \* aggregation: the index pairs set to 1 in this_neurons, per file loaded

buildVars == <<pc, isimBound, lambda_dg, seed, npSeed, npDraws, rate, layerProps,
               layers, nodes, nextLeaf, phase, phaseCalls>>
connVars == <<connDict, ip, callLog, edges, recorders, detectors, connected>>
aggVars == <<all_sim, neural_std, results>>
simVars == <<folder_name, isim, events, written>>
gridVars == <<probe>>
loadVars == <<files, nneurons, loaded>>
vars == <<buildVars, connVars, run, prev, aggVars, simVars, gridVars, loadVars>>

(***************************************************************************)
(* Bounds of the model.                                                    *)
(***************************************************************************)
\* grid locations per side, standing in for Params['N'] (40 in the script)
GridN == 2
\* grng seeds are 0 .. MaxSeed
MaxSeed == 1
\* numpy seeds are 0 .. MaxNpSeed
MaxNpSeed == 2
\* levels a numpy draw is discretised to
NpLevels == 6

\* engine scenarios: grids of 1 .. MaxGrid locations per side
MaxGrid == 3
\* engine scenarios: rule applications per graph
MaxApps == 2
\* aggregation: simulation runs (folders) loaded
MaxRuns == 3
\* aggregation: entries (file, neuron, time bin) of an activity matrix
NEntries == 3
\* runs of the simulation loop, standing in for the 200 of range(1, 201, 1)
MaxSim == 2

Seeds == 0 .. MaxSeed
NpSeeds == 0 .. MaxNpSeed

(***************************************************************************)
(* Dictionaries: python dict.update as a right-biased merge.               *)
(***************************************************************************)
\* mutant: a key the dictionary already holds keeps its old value
Update_M(d, u) ==
    [k \in (DOMAIN d) \cup (DOMAIN u) |-> IF k \in DOMAIN d THEN d[k] ELSE u[k]]

Update(d, u) ==
    [k \in (DOMAIN d) \cup (DOMAIN u) |-> IF k \in DOMAIN u THEN u[k] ELSE d[k]]

Has(d, k) == k \in DOMAIN d

Abs(x) == IF x < 0 THEN -x ELSE x

Min2(a, b) == IF a <= b THEN a ELSE b

(***************************************************************************)
(* Random sources.  NEST's global generator is a deterministic stream of   *)
(* its seed; numpy's global generator is a deterministic stream of the     *)
(* state it was seeded with from the operating system.                     *)
(***************************************************************************)
\* i-th value, in 0..999, of the stream of grng seed s
Rnd(s, i) ==
    ((s * 389) + ((i % 1009) * 211) + ((i % 97) * (i % 89)) + ((i % 7) * 131)) % 1000

\* k-th numpy draw of the stream of state s, a level in 0 .. NpLevels-1
NpRand(s, k) == (s + ((k * (k + 3)) \div 2) + ((s + 1) * k)) % NpLevels

(***************************************************************************)
(* Parameters (lines 85-95) and the scaling factor dpc (line 410).         *)
(***************************************************************************)
retDC == 30
retAC == 30
LambdaValues == {-1, 0, 2}

\* Params['visSize'] in length units
visSize == 2 * GridN * (GridN - 1)

dpc == visSize \div (GridN - 1)

(***************************************************************************)
(* Geometry (spec 4.1).                                                    *)
(***************************************************************************)
\* mutant: the offset reduced modulo the extent without recentring
WrapMinImage_M(d, ext) == d % ext

\* one axis of candidate - driver, by the minimum-image convention if periodic
WrapMinImage(d, ext) == ((d + (ext \div 2)) % ext) - (ext \div 2)

Wrap(d, ext, periodic) == IF periodic THEN WrapMinImage(d, ext) ELSE d

Displacement(a, b, L) ==
    << Wrap(b[1] - a[1], L.extent[1], L.edge_wrap),
       Wrap(b[2] - a[2], L.extent[2], L.edge_wrap) >>

\* squared Euclidean distance; distance itself is its (monotone) square root
distance2(a, b, L) ==
    LET d == Displacement(a, b, L) IN d[1] * d[1] + d[2] * d[2]

\* the same with the layer taken as not periodic
plainDistance2(a, b) ==
    (b[1] - a[1]) * (b[1] - a[1]) + (b[2] - a[2]) * (b[2] - a[2])

in_mask(driver, candidate, mask, L) ==
    IF Has(mask, "circular")
    THEN distance2(driver, candidate, L)
             <= mask.circular.radius * mask.circular.radius
    ELSE LET d == Displacement(driver, candidate, L) IN
         /\ mask.rectangular.lower_left[1] <= d[1]
         /\ d[1] <= mask.rectangular.upper_right[1]
         /\ mask.rectangular.lower_left[2] <= d[2]
         /\ d[2] <= mask.rectangular.upper_right[2]

(***************************************************************************)
(* Kernel (spec 4.2): probability in 1/1000 of a pair at squared distance  *)
(* d2.  exp(-x) is evaluated as 1 / (1 + x + x^2/2) in integer arithmetic. *)
(***************************************************************************)
probability(d2, kernel) ==
    IF Has(kernel, "constant")
    THEN kernel.constant
    ELSE LET D == 2 * kernel.gaussian.sigma * kernel.gaussian.sigma
         IN (kernel.gaussian.p_center * D) \div (D + d2 + ((d2 * d2) \div (2 * D)))

(***************************************************************************)
(* Distribution sampler (spec 4.3): a fixed value or a uniform range.      *)
(***************************************************************************)
resolve(spec, s, i) ==
    IF Has(spec, "fixed")
    THEN spec.fixed
    ELSE spec.uniform.min + (Rnd(s, i) % (spec.uniform.max - spec.uniform.min + 1))

(***************************************************************************)
(* Layers (spec 4.5, topo.CreateLayer).                                    *)
(***************************************************************************)
\* the composition <<model, count>>, ... flattened to one model per element
RECURSIVE Flatten(_)
Flatten(comp) ==
    IF comp = <<>> THEN <<>>
    ELSE [i \in 1 .. comp[1][2] |-> comp[1][1]] \o Flatten(Tail(comp))

\* centre of the grid cell in row r, column c (both from 0)
CellPos(props, r, c) ==
    << ((2 * c + 1) * (props.extent[1] \div (2 * props.columns))) - (props.extent[1] \div 2),
       (props.extent[2] \div 2) - ((2 * r + 1) * (props.extent[2] \div (2 * props.rows))) >>

\* the nodes a layer adds to the network: the layer itself, then its elements,
\* element type by element type, column by column
CreateLayer(name, props) ==
    LET flat  == Flatten(props.elements)
        cells == props.rows * props.columns
        elem(i) ==
            LET f == (i - 1) \div cells
                c == ((i - 1) % cells) \div props.rows
                r == ((i - 1) % cells) % props.rows
            IN [kind |-> "neuron", layer |-> name, model |-> flat[f + 1],
                cell |-> <<r, c>>, pos |-> CellPos(props, r, c)]
    IN << [kind |-> "layer", layer |-> name, model |-> "topology_layer_grid",
           cell |-> <<0, 0>>, pos |-> <<0, 0>>] >>
       \o [i \in 1 .. Len(flat) * cells |-> elem(i)]

LayerRecord(props, gid) ==
    [gid |-> gid, rows |-> props.rows, columns |-> props.columns,
     extent |-> props.extent, edge_wrap |-> props.edge_wrap,
     elements |-> props.elements]

\* nest.GetLeaves(layer)[0]
Leaves(name) ==
    {g \in 1 .. Len(nodes) : nodes[g].kind = "neuron" /\ nodes[g].layer = name}

\* the elements of a layer that a 'sources' / 'targets' entry selects
Lookup(name, d, side) ==
    {g \in Leaves(name) : Has(d, side) => nodes[g].model = d[side].model}

(***************************************************************************)
(* Rule executor (spec 4.4, topo.ConnectLayers): the edges one application *)
(* of rule d from layer src to layer tgt emits, as call number app.        *)
(* A divergent rule is driven from the sources, a convergent one from the  *)
(* targets; mask and kernel are evaluated around the driver, in the layer  *)
(* of the candidates; every pair inside the mask gets one Bernoulli trial. *)
(***************************************************************************)
DrawIndex(app, dr, c) == 3 * ((app * (Len(nodes) + 1) + dr) * (Len(nodes) + 1) + c)

Drivers(src, tgt, d) ==
    IF d.connection_type = "convergent"
    THEN Lookup(tgt, d, "targets") ELSE Lookup(src, d, "sources")

Candidates(src, tgt, d, dr) ==
    LET conv == d.connection_type = "convergent"
        pool == IF conv THEN Lookup(src, d, "sources") ELSE Lookup(tgt, d, "targets")
        L    == layers[IF conv THEN src ELSE tgt]
    IN {c \in pool : in_mask(nodes[dr].pos, nodes[c].pos, d.mask, L)}

\* mutant: pairs at one position are silently skipped
Bernoulli_M(src, tgt, d, app, dr, c) ==
    LET L == layers[IF d.connection_type = "convergent" THEN src ELSE tgt]
    IN /\ nodes[dr].pos # nodes[c].pos
       /\ Rnd(seed, DrawIndex(app, dr, c))
              < probability(distance2(nodes[dr].pos, nodes[c].pos, L), d.kernel)

Bernoulli(src, tgt, d, app, dr, c) ==
    LET L == layers[IF d.connection_type = "convergent" THEN src ELSE tgt]
    IN Rnd(seed, DrawIndex(app, dr, c))
           < probability(distance2(nodes[dr].pos, nodes[c].pos, L), d.kernel)

\* mutant: weight and delay exchanged
Edge_M(d, app, dr, c) ==
    [source |-> IF d.connection_type = "convergent" THEN c ELSE dr,
     target |-> IF d.connection_type = "convergent" THEN dr ELSE c,
     weight |-> resolve(d.delays, seed, DrawIndex(app, dr, c) + 2),
     delay  |-> resolve(d.weights, seed, DrawIndex(app, dr, c) + 1),
     synapse_model |-> d.synapse_model,
     app |-> app]

Edge(d, app, dr, c) ==
    [source |-> IF d.connection_type = "convergent" THEN c ELSE dr,
     target |-> IF d.connection_type = "convergent" THEN dr ELSE c,
     weight |-> resolve(d.weights, seed, DrawIndex(app, dr, c) + 1),
     delay  |-> resolve(d.delays, seed, DrawIndex(app, dr, c) + 2),
     synapse_model |-> d.synapse_model,
     app |-> app]

\* mutant: a pair that is already connected is not connected again
ConnectLayers_M(src, tgt, d, app) ==
    UNION { { Edge(d, app, dr, c) :
                c \in {x \in Candidates(src, tgt, d, dr) :
                          /\ Bernoulli(src, tgt, d, app, dr, x)
                          /\ ~ \E e \in edges :
                                 /\ e.source = Edge(d, app, dr, x).source
                                 /\ e.target = Edge(d, app, dr, x).target} } :
            dr \in Drivers(src, tgt, d) }

ConnectLayers(src, tgt, d, app) ==
    UNION { { Edge(d, app, dr, c) :
                c \in {x \in Candidates(src, tgt, d, dr) :
                          Bernoulli(src, tgt, d, app, dr, x)} } :
            dr \in Drivers(src, tgt, d) }

(***************************************************************************)
(* The build script, src/nsdm_hill_tononi_Vp.py, statement by statement.   *)
(***************************************************************************)
RECURSIVE Sorted(_)
Sorted(S) ==
    IF S = {} THEN <<>>
    ELSE LET m == CHOOSE x \in S : \A y \in S : x <= y
         IN <<m>> \o Sorted(S \ {m})

\* 'elements' entries, each written as <<model, count>> pairs
RetinaElements == << <<"RetinaNode", 1>> >>
TpElements == << <<"TpRelay", 1>>, <<"TpInter", 1>> >>
RpElements == << <<"RpNeuron", 1>> >>
\* mutant: the count of the first element type is lost
VpElements_M == << <<"L23pyr", 1>>, <<"L23in", 1>>, <<"L4pyr", 2>>, <<"L4in", 1>>,
                   <<"L56pyr", 2>>, <<"L56in", 1>> >>

VpElements == << <<"L23pyr", 2>>, <<"L23in", 1>>, <<"L4pyr", 2>>, <<"L4in", 1>>,
                 <<"L56pyr", 2>>, <<"L56in", 1>> >>

layerPropsBase ==
    [rows |-> GridN, columns |-> GridN, extent |-> <<visSize, visSize>>,
     edge_wrap |-> TRUE]

\* nest.ResetKernel() (line 44): an empty network
KernelReset ==
    /\ nodes = <<>>
    /\ layers = <<>>
    /\ layerProps = <<>>
    /\ rate = 0
    /\ nextLeaf = 1
    /\ phase = <<>>
    /\ phaseCalls = <<>>
    /\ connDict = <<>>
    /\ ip = 1
    /\ callLog = <<>>
    /\ edges = {}
    /\ recorders = <<>>
    /\ detectors = <<>>
    /\ connected = {}

AggIdle ==
    /\ all_sim = <<>>
    /\ neural_std = <<>>
    /\ results = <<>>

\* nothing simulated, nothing saved
SimIdle ==
    /\ folder_name = <<>>
    /\ isim = 0
    /\ events = {}
    /\ written = <<>>

GridIdle == probe = <<>>

LoadIdle ==
    /\ files = <<>>
    /\ nneurons = 0
    /\ loaded = <<>>

Init ==
    /\ pc = "seed"
    /\ isimBound \in BOOLEAN
    /\ lambda_dg \in LambdaValues
    /\ seed = 0
    /\ npSeed \in NpSeeds
    /\ npDraws = 0
    /\ KernelReset
    /\ run = 1
    /\ prev = <<>>
    /\ AggIdle
    /\ SimIdle
    /\ GridIdle
    /\ LoadIdle

\* line 51: the seed is the wall clock
SetSeed ==
    /\ pc = "seed"
    /\ seed' \in Seeds
    /\ pc' = "folder"
    /\ UNCHANGED <<isimBound, lambda_dg, npSeed, npDraws, rate, layerProps, layers,
                   nodes, nextLeaf, phase, phaseCalls, connVars, run, prev,
                   simVars, gridVars, loadVars, aggVars>>

\* lines 99-101: folder_name is computed from isim before the loop of line 752
\* binds it: NameError, unless the interpreter session still holds an isim
\* from an earlier execution, and then that value is the one formatted
SetFolderName ==
    /\ pc = "folder"
    /\ IF isimBound
       THEN /\ \E stale \in 1 .. MaxSim : folder_name' = [isim |-> stale]
            /\ pc' = "model"
       ELSE /\ pc' = "NameError"
            /\ UNCHANGED folder_name
    /\ UNCHANGED <<isimBound, lambda_dg, seed, npSeed, npDraws, rate, layerProps,
                   layers, nodes, nextLeaf, phase, phaseCalls, connVars, run, prev,
                   isim, events, written, gridVars, loadVars, aggVars>>

\* lines 226-231: 'rate' is retDC + 30 * np.random.rand()
CopyRetinaModel ==
    /\ pc = "model"
    /\ rate' = retDC * NpLevels + 30 * NpRand(npSeed, npDraws)
    /\ npDraws' = npDraws + 1
    /\ pc' = "retina"
    /\ UNCHANGED <<isimBound, lambda_dg, seed, npSeed, layerProps, layers, nodes,
                   nextLeaf, phase, phaseCalls, connVars, run, prev,
                   simVars, gridVars, loadVars, aggVars>>

\* layerProps.update({'elements': ...}); name = topo.CreateLayer(layerProps)
CreatePopulation(name, props) ==
    /\ layerProps' = props
    /\ nodes' = nodes \o CreateLayer(name, props)
    /\ layers' = (name :> LayerRecord(props, Len(nodes) + 1)) @@ layers

\* lines 262-274
CreateRetina ==
    /\ pc = "retina"
    /\ CreatePopulation("retina", Update(layerPropsBase, [elements |-> RetinaElements]))
    /\ pc' = "phase"
    /\ UNCHANGED <<isimBound, lambda_dg, seed, npSeed, npDraws, rate, nextLeaf, phase,
                   phaseCalls, connVars, run, prev,
                   simVars, gridVars, loadVars, aggVars>>

\* the wavelength and the angle phaseInit is called with
PhaseArgs(fixed, k) ==
    IF fixed
    THEN [lam |-> [unit |-> "degree", v |-> lambda_dg],
          alpha |-> [unit |-> "radian", v |-> 0]]
    ELSE [lam |-> [unit |-> "pi/NpLevels", v |-> NpRand(npSeed, k)],
          alpha |-> [unit |-> "pi/NpLevels", v |-> NpRand(npSeed, k + 1)]]

\* lines 215-224 and one element of the comprehension of lines 278-291:
\* 360.0 / lam raises ZeroDivisionError when lam is 0, which ends the script
PhaseInitStep ==
    /\ pc = "phase"
    /\ LET leaves == Sorted(Leaves("retina"))
           n      == leaves[nextLeaf]
           fixed  == lambda_dg >= 0
           args   == PhaseArgs(fixed, npDraws)
           call   == [node |-> n, pos |-> nodes[n].pos, lam |-> args.lam,
                      alpha |-> args.alpha]
       IN /\ nextLeaf <= Len(leaves)
          /\ phaseCalls' = Append(phaseCalls, call)
          /\ npDraws' = IF fixed THEN npDraws ELSE npDraws + 2
          /\ IF args.lam.v = 0
             THEN /\ pc' = "ZeroDivisionError"
                  /\ UNCHANGED <<phase, nextLeaf>>
             ELSE /\ phase' = (n :> call) @@ phase
                  /\ nextLeaf' = nextLeaf + 1
                  /\ pc' = IF nextLeaf = Len(leaves) THEN "Tp" ELSE "phase"
    /\ UNCHANGED <<isimBound, lambda_dg, seed, npSeed, rate, layerProps, layers,
                   nodes, connVars, run, prev, simVars, gridVars, loadVars, aggVars>>

\* lines 302-307
CreateTp ==
    /\ pc = "Tp"
    /\ CreatePopulation("Tp", Update(layerProps, [elements |-> TpElements]))
    /\ pc' = "Rp"
    /\ UNCHANGED <<isimBound, lambda_dg, seed, npSeed, npDraws, rate, nextLeaf, phase,
                   phaseCalls, connVars, run, prev,
                   simVars, gridVars, loadVars, aggVars>>

\* lines 313-315
CreateRp ==
    /\ pc = "Rp"
    /\ CreatePopulation("Rp", Update(layerProps, [elements |-> RpElements]))
    /\ pc' = "Vp_h"
    /\ UNCHANGED <<isimBound, lambda_dg, seed, npSeed, npDraws, rate, nextLeaf, phase,
                   phaseCalls, connVars, run, prev,
                   simVars, gridVars, loadVars, aggVars>>

\* lines 329-336
CreateVp_h ==
    /\ pc = "Vp_h"
    /\ CreatePopulation("Vp_h", Update(layerProps, [elements |-> VpElements]))
    /\ pc' = "Vp_v"
    /\ UNCHANGED <<isimBound, lambda_dg, seed, npSeed, npDraws, rate, nextLeaf, phase,
                   phaseCalls, connVars, run, prev,
                   simVars, gridVars, loadVars, aggVars>>

\* line 337
CreateVp_v ==
    /\ pc = "Vp_v"
    /\ CreatePopulation("Vp_v", layerProps)
    /\ pc' = "connect"
    /\ UNCHANGED <<isimBound, lambda_dg, seed, npSeed, npDraws, rate, nextLeaf, phase,
                   phaseCalls, connVars, run, prev,
                   simVars, gridVars, loadVars, aggVars>>

(***************************************************************************)
(* Connection dictionaries (lines 410-531).  'weights': w is written       *)
(* [fixed |-> 100 w], 'delays': x as [fixed |-> 100 x], 'kernel': p as     *)
(* [constant |-> 1000 p].                                                  *)
(***************************************************************************)
Circular(r) == [circular |-> [radius |-> r]]

Rectangular(ll, ur) == [rectangular |-> [lower_left |-> ll, upper_right |-> ur]]

Gaussian(p, sigma) == [gaussian |-> [p_center |-> p, sigma |-> sigma]]

Uniform(lo, hi) == [uniform |-> [min |-> lo, max |-> hi]]

FromTo(s, t) == [sources |-> [model |-> s], targets |-> [model |-> t]]

\* [copy of base updated by conn : conn in conns]
CopyUpdate(base, conns) == [i \in 1 .. Len(conns) |-> Update(base, conns[i])]

horIntraBase ==
    [connection_type |-> "divergent", synapse_model |-> "AMPA",
     mask |-> Circular(12 * dpc), kernel |-> Gaussian(50, (15 * dpc) \div 2),
     weights |-> [fixed |-> 100], delays |-> Uniform(175, 225)]

horIntraConns ==
    << FromTo("L23pyr", "L23pyr"), FromTo("L23pyr", "L23in"),
       Update(FromTo("L4pyr", "L4pyr"), [mask |-> Circular(7 * dpc)]),
       Update(FromTo("L4pyr", "L4in"), [mask |-> Circular(7 * dpc)]),
       FromTo("L56pyr", "L56pyr"), FromTo("L56pyr", "L56in") >>

verIntraBase ==
    [connection_type |-> "divergent", synapse_model |-> "AMPA",
     mask |-> Circular(2 * dpc), kernel |-> Gaussian(1000, (15 * dpc) \div 2),
     weights |-> [fixed |-> 200], delays |-> Uniform(175, 225)]

verIntraConns ==
    << Update(FromTo("L23pyr", "L56pyr"), [weights |-> [fixed |-> 100]]),
       Update(FromTo("L23pyr", "L56in"), [weights |-> [fixed |-> 100]]),
       FromTo("L4pyr", "L23pyr"), FromTo("L4pyr", "L23in"),
       FromTo("L56pyr", "L23pyr"), FromTo("L56pyr", "L23in"),
       FromTo("L56pyr", "L4pyr"), FromTo("L56pyr", "L4in") >>

\* mutant: the sign of the inhibitory weight is lost
intraInhBase_M ==
    [connection_type |-> "divergent", synapse_model |-> "GABA_A",
     mask |-> Circular(7 * dpc), kernel |-> Gaussian(250, (15 * dpc) \div 2),
     weights |-> [fixed |-> 200], delays |-> Uniform(175, 225)]

intraInhBase ==
    [connection_type |-> "divergent", synapse_model |-> "GABA_A",
     mask |-> Circular(7 * dpc), kernel |-> Gaussian(250, (15 * dpc) \div 2),
     weights |-> [fixed |-> -200], delays |-> Uniform(175, 225)]

intraInhConns ==
    << FromTo("L23in", "L23pyr"), FromTo("L23in", "L23in"),
       FromTo("L4in", "L4pyr"), FromTo("L4in", "L4in"),
       FromTo("L56in", "L56pyr"), FromTo("L56in", "L56in") >>

corThalBase ==
    [connection_type |-> "divergent", synapse_model |-> "AMPA",
     mask |-> Circular(5 * dpc), kernel |-> Gaussian(500, (15 * dpc) \div 2),
     weights |-> [fixed |-> 100], delays |-> Uniform(750, 850)]

corThalConns == << FromTo("L56pyr", "TpRelay"), FromTo("L56pyr", "TpInter") >>

ccConnections ==
    CopyUpdate(horIntraBase, horIntraConns) \o CopyUpdate(verIntraBase, verIntraConns)
        \o CopyUpdate(intraInhBase, intraInhConns)

ccxConnections == CopyUpdate(intraInhBase, intraInhConns)

\* line 519: the copies are taken of intraInhBase, not of corThalBase
ctConnections == CopyUpdate(intraInhBase, corThalConns)

corRet ==
    Update(corThalBase, [sources |-> [model |-> "L56pyr"], weights |-> [fixed |-> 250]])

(***************************************************************************)
(* In-place rule dictionaries (lines 563-680).                             *)
(***************************************************************************)
\* mutant: the thalamocortical rule draws from the interneurons
thalCorRect_M ==
    [connection_type |-> "convergent", sources |-> [model |-> "TpInter"],
     synapse_model |-> "AMPA", weights |-> [fixed |-> 500],
     delays |-> Uniform(275, 325)]

thalCorRect ==
    [connection_type |-> "convergent", sources |-> [model |-> "TpRelay"],
     synapse_model |-> "AMPA", weights |-> [fixed |-> 500],
     delays |-> Uniform(275, 325)]

thalCorRectH == [mask |-> Rectangular(<<-4 * dpc, -1 * dpc>>, <<4 * dpc, 1 * dpc>>)]

thalCorRectV == [mask |-> Rectangular(<<-1 * dpc, -4 * dpc>>, <<1 * dpc, 4 * dpc>>)]

thalCorRectConns ==
    << [targets |-> [model |-> "L4pyr"], kernel |-> [constant |-> 500]],
       [targets |-> [model |-> "L56pyr"], kernel |-> [constant |-> 300]] >>

thalCorDiff ==
    [connection_type |-> "convergent", sources |-> [model |-> "TpRelay"],
     synapse_model |-> "AMPA", weights |-> [fixed |-> 500],
     mask |-> Circular(5 * dpc), kernel |-> Gaussian(100, (15 * dpc) \div 2),
     delays |-> Uniform(275, 325)]

thalCorDiffConns == << [targets |-> [model |-> "L4in"]], [targets |-> [model |-> "L56in"]] >>

thalBase == [connection_type |-> "divergent", delays |-> Uniform(175, 225)]

thalConns ==
    << [src |-> "Tp", tgt |-> "Rp",
        conn |-> [sources |-> [model |-> "TpRelay"], synapse_model |-> "AMPA",
                  mask |-> Circular(2 * dpc),
                  kernel |-> Gaussian(1000, (15 * dpc) \div 2),
                  weights |-> [fixed |-> 200]]],
       [src |-> "Tp", tgt |-> "Tp",
        conn |-> [sources |-> [model |-> "TpInter"], targets |-> [model |-> "TpRelay"],
                  synapse_model |-> "GABA_A", weights |-> [fixed |-> -100],
                  mask |-> Circular(2 * dpc),
                  kernel |-> Gaussian(250, (15 * dpc) \div 2)]],
       [src |-> "Tp", tgt |-> "Tp",
        conn |-> [sources |-> [model |-> "TpInter"], targets |-> [model |-> "TpInter"],
                  synapse_model |-> "GABA_A", weights |-> [fixed |-> -100],
                  mask |-> Circular(2 * dpc),
                  kernel |-> Gaussian(250, (15 * dpc) \div 2)]],
       [src |-> "Rp", tgt |-> "Tp",
        conn |-> [targets |-> [model |-> "TpRelay"],
                  synapse_model |-> "GABA_A", weights |-> [fixed |-> -100],
                  mask |-> Circular(12 * dpc),
                  kernel |-> Gaussian(150, (15 * dpc) \div 2)]],
       [src |-> "Rp", tgt |-> "Tp",
        conn |-> [targets |-> [model |-> "TpInter"],
                  synapse_model |-> "GABA_A", weights |-> [fixed |-> -100],
                  mask |-> Circular(12 * dpc),
                  kernel |-> Gaussian(150, (15 * dpc) \div 2)]],
       [src |-> "Rp", tgt |-> "Rp",
        conn |-> [targets |-> [model |-> "RpNeuron"],
                  synapse_model |-> "GABA_A", weights |-> [fixed |-> -100],
                  mask |-> Circular(12 * dpc),
                  kernel |-> Gaussian(500, (15 * dpc) \div 2)]] >>

retThal ==
    [connection_type |-> "divergent", synapse_model |-> "AMPA",
     mask |-> Circular(1 * dpc), kernel |-> Gaussian(750, (5 * dpc) \div 2),
     weights |-> [fixed |-> 1000], delays |-> [fixed |-> 100]]

retThalConns == << [targets |-> [model |-> "TpRelay"]], [targets |-> [model |-> "TpInter"]] >>

(***************************************************************************)
(* The statements of lines 537-746 in program order.                       *)
(*   connect: topo.ConnectLayers(src, tgt, dict) with a dictionary of one  *)
(*            of the lists;                                                *)
(*   assign:  name = {...}, a new in-place dictionary;                     *)
(*   update:  name.update(dict), then the ConnectLayers calls of the loop  *)
(*            body, if any, with the updated dictionary;                   *)
(*   devices: the recording-device block, which the indentation of lines   *)
(*            711-746 makes the rest of the body of the loop of line 677.  *)
(***************************************************************************)
Stmt(op, d, calls) == [op |-> op, dict |-> d, calls |-> calls]

ForEach(src, tgt, conns) ==
    [i \in 1 .. Len(conns) |-> Stmt("connect", conns[i], << <<src, tgt>> >>)]

InPlaceLoop(conns, calls) ==
    [i \in 1 .. Len(conns) |-> Stmt("update", conns[i], calls)]

CortexStatements ==
    ForEach("Vp_h", "Vp_h", ccConnections) \o ForEach("Vp_v", "Vp_v", ccConnections)
        \o ForEach("Vp_h", "Vp_v", ccxConnections)
        \o ForEach("Vp_v", "Vp_h", ccxConnections)
        \o ForEach("Vp_h", "Tp", ctConnections) \o ForEach("Vp_v", "Tp", ctConnections)
        \o << Stmt("connect", corRet, << <<"Vp_h", "Rp">> >>),
              Stmt("connect", corRet, << <<"Vp_v", "Rp">> >>) >>

ThalCorStatements ==
    << Stmt("assign", thalCorRect, <<>>), Stmt("update", thalCorRectH, <<>>) >>
        \o InPlaceLoop(thalCorRectConns, << <<"Tp", "Vp_h">> >>)
        \o << Stmt("update", thalCorRectV, <<>>) >>
        \o InPlaceLoop(thalCorRectConns, << <<"Tp", "Vp_v">> >>)
        \o << Stmt("assign", thalCorDiff, <<>>) >>
        \o InPlaceLoop(thalCorDiffConns, << <<"Tp", "Vp_h">>, <<"Tp", "Vp_v">> >>)

ThalStatements ==
    << Stmt("assign", thalBase, <<>>) >>
        \o [i \in 1 .. Len(thalConns) |->
              Stmt("update", thalConns[i].conn,
                   << <<thalConns[i].src, thalConns[i].tgt>> >>)]

RetThalStatements ==
    << Stmt("assign", retThal, <<>>),
       Stmt("update", retThalConns[1], << <<"retina", "Tp">> >>),
       Stmt("devices", <<>>, <<>>),
       Stmt("update", retThalConns[2], << <<"retina", "Tp">> >>),
       Stmt("devices", <<>>, <<>>) >>

ConnectScript ==
    CortexStatements \o ThalCorStatements \o ThalStatements \o RetThalStatements

\* the edges of the ConnectLayers calls of one statement with dictionary d
CallEdges(calls, d) ==
    UNION { ConnectLayers(calls[j][1], calls[j][2], d, Len(callLog) + j) :
            j \in 1 .. Len(calls) }

Logged(calls, d) ==
    [j \in 1 .. Len(calls) |-> [src |-> calls[j][1], tgt |-> calls[j][2], dict |-> d]]

Advance ==
    /\ ip' = ip + 1
    /\ pc' = IF ip = Len(ConnectScript) THEN "simulate" ELSE "connect"

\* lines 539-552: one ConnectLayers call with a dictionary of a list
ConnectStatic ==
    /\ pc = "connect"
    /\ ConnectScript[ip].op = "connect"
    /\ edges' = edges \cup CallEdges(ConnectScript[ip].calls, ConnectScript[ip].dict)
    /\ callLog' = callLog \o Logged(ConnectScript[ip].calls, ConnectScript[ip].dict)
    /\ Advance
    /\ UNCHANGED <<isimBound, lambda_dg, seed, npSeed, npDraws, rate, layerProps,
                   layers, nodes, nextLeaf, phase, phaseCalls, connDict, recorders,
                   detectors, connected, run, prev,
                   simVars, gridVars, loadVars, aggVars>>

\* lines 563, 588, 621, 668
AssignDict ==
    /\ pc = "connect"
    /\ ConnectScript[ip].op = "assign"
    /\ connDict' = ConnectScript[ip].dict
    /\ Advance
    /\ UNCHANGED <<isimBound, lambda_dg, seed, npSeed, npDraws, rate, layerProps,
                   layers, nodes, nextLeaf, phase, phaseCalls, callLog, edges,
                   recorders, detectors, connected, run, prev,
                   simVars, gridVars, loadVars, aggVars>>

\* lines 572, 576-577, 580, 584-585, 602-604, 658-659, 679-680
UpdateInPlace ==
    /\ pc = "connect"
    /\ ConnectScript[ip].op = "update"
    /\ connDict' = Update(connDict, ConnectScript[ip].dict)
    /\ edges' = edges \cup CallEdges(ConnectScript[ip].calls, connDict')
    /\ callLog' = callLog \o Logged(ConnectScript[ip].calls, connDict')
    /\ Advance
    /\ UNCHANGED <<isimBound, lambda_dg, seed, npSeed, npDraws, rate, layerProps,
                   layers, nodes, nextLeaf, phase, phaseCalls, recorders, detectors,
                   connected, run, prev, simVars, gridVars, loadVars, aggVars>>

(***************************************************************************)
(* Recording devices (lines 711-746).                                      *)
(***************************************************************************)
RecorderTable ==
    << <<"TpRelay", "Tp", "TpRelay">>, <<"Rp", "Rp", "RpNeuron">>,
       <<"Vp_v L4pyr", "Vp_v", "L4pyr">>, <<"Vp_h L4pyr", "Vp_h", "L4pyr">> >>

DetectorTable ==
    << <<"Vp_v L4pyr", "Vp_v", "L4pyr">>, <<"Vp_h L4pyr", "Vp_h", "L4pyr">>,
       <<"Vp_v L23pyr", "Vp_v", "L23pyr">>, <<"Vp_h L23pyr", "Vp_h", "L23pyr">>,
       <<"Vp_v L56pyr", "Vp_v", "L56pyr">>, <<"Vp_h L56pyr", "Vp_h", "L56pyr">>,
       <<"TpRelay", "Tp", "TpRelay">>, <<"Rp", "Rp", "RpNeuron">>,
       <<"Retina", "retina", "RetinaNode">> >>

DeviceNode(model) ==
    [kind |-> "device", layer |-> "", model |-> model, cell |-> <<0, 0>>,
     pos |-> <<0, 0>>]

\* tgts = [nd for nd in nest.GetLeaves(population)[0] if model of nd == model]
Tgts(population, model) == {g \in Leaves(population) : nodes[g].model = model}

\* the devices of one table, created from gid first on, by name
DeviceDict(table, first) ==
    [name \in {table[i][1] : i \in 1 .. Len(table)} |->
        first - 1 + CHOOSE i \in 1 .. Len(table) : table[i][1] = name]

Connections(table, first, kind) ==
    { [device |-> first - 1 + i, kind |-> kind, name |-> table[i][1],
       tgts |-> Tgts(table[i][2], table[i][3])] : i \in 1 .. Len(table) }

RecordingDevices ==
    /\ pc = "connect"
    /\ ConnectScript[ip].op = "devices"
    /\ LET firstRec == Len(nodes) + 1
           firstDet == firstRec + Len(RecorderTable)
       IN /\ nodes' = nodes
                 \o [i \in 1 .. Len(RecorderTable) |-> DeviceNode("RecordingNode")]
                 \o [i \in 1 .. Len(DetectorTable) |-> DeviceNode("spike_detector")]
          /\ recorders' = DeviceDict(RecorderTable, firstRec)
          /\ detectors' = DeviceDict(DetectorTable, firstDet)
          /\ connected' = connected
                 \cup Connections(RecorderTable, firstRec, "RecordingNode")
                 \cup Connections(DetectorTable, firstDet, "spike_detector")
    /\ Advance
    /\ UNCHANGED <<isimBound, lambda_dg, seed, npSeed, npDraws, rate, layerProps,
                   layers, nextLeaf, phase, phaseCalls, connDict, callLog, edges,
                   run, prev, simVars, gridVars, loadVars, aggVars>>

(***************************************************************************)
(* The simulation loop (lines 752-799).  The kernel is not reset and no     *)
(* device is cleared between the runs: run k advances the kernel clock from *)
(* (k-1) simtime to k simtime, and what a detector recorded stays in it.    *)
(* An event is kept here as the run whose window it falls in.               *)
(***************************************************************************)
\* one iteration: nest.Simulate(Params['simtime']), then, for every entry of
\* detectors, nest.GetStatus(rec, "events")[0] dumped under folder_name
SimulateAndSave ==
    /\ pc = "simulate"
    /\ isim < MaxSim
    /\ isim' = isim + 1
    /\ \E spiked \in BOOLEAN :
          events' = events \cup (IF spiked THEN {isim'} ELSE {})
    /\ written' = Append(written, [run |-> isim', folder |-> folder_name,
                                   names |-> DOMAIN detectors, events |-> events'])
    /\ pc' = IF isim' = MaxSim THEN "done" ELSE "simulate"
    /\ UNCHANGED <<isimBound, lambda_dg, seed, npSeed, npDraws, rate, layerProps,
                   layers, nodes, nextLeaf, phase, phaseCalls, connVars, run, prev,
                   folder_name, gridVars, loadVars, aggVars>>

Next ==
    \/ SetSeed
    \/ SetFolderName
    \/ CopyRetinaModel
    \/ CreateRetina
    \/ PhaseInitStep
    \/ CreateTp
    \/ CreateRp
    \/ CreateVp_h
    \/ CreateVp_v
    \/ ConnectStatic
    \/ AssignDict
    \/ UpdateInPlace
    \/ RecordingDevices
    \/ SimulateAndSave

Spec == Init /\ [][Next]_vars

(***************************************************************************)
(* A second build of the same configuration in a fresh process: the first  *)
(* build's parameters and graph are kept for comparison.                   *)
(***************************************************************************)
Rebuild ==
    /\ pc = "simulate"
    /\ run = 1
    /\ prev' = [seed |-> seed, rate |-> rate, phase |-> phase, edges |-> edges]
    /\ run' = 2
    /\ pc' = "seed"
    /\ seed' = 0
    /\ npSeed' \in NpSeeds
    /\ npDraws' = 0
    /\ nodes' = <<>>
    /\ layers' = <<>>
    /\ layerProps' = <<>>
    /\ rate' = 0
    /\ nextLeaf' = 1
    /\ phase' = <<>>
    /\ phaseCalls' = <<>>
    /\ connDict' = <<>>
    /\ ip' = 1
    /\ callLog' = <<>>
    /\ edges' = {}
    /\ recorders' = <<>>
    /\ detectors' = <<>>
    /\ connected' = {}
    /\ folder_name' = <<>>
    /\ isim' = 0
    /\ events' = {}
    /\ written' = <<>>
    /\ UNCHANGED <<isimBound, lambda_dg, aggVars, gridVars, loadVars>>

NextRebuild == Next \/ Rebuild

SpecRebuild == Init /\ [][NextRebuild]_vars

(***************************************************************************)
(* The rule executor on its own: two layers of a small configuration and   *)
(* up to MaxApps applications of rules to them.                            *)
(***************************************************************************)
RECURSIVE Factorial(_)
Factorial(n) == IF n <= 1 THEN 1 ELSE n * Factorial(n - 1)

\* an extent every grid of 1 .. MaxGrid locations per side divides evenly
EngineExtent == 2 * Factorial(MaxGrid)

EngineElements == { << <<"A", 1>> >>, << <<"A", 2>>, <<"B", 1>> >> }

EngineLayer(g, periodic, elements) ==
    [rows |-> g, columns |-> g, extent |-> <<EngineExtent, EngineExtent>>,
     edge_wrap |-> periodic, elements |-> elements]

\* the end-to-end rule: only the candidate at the driver's own position of a
\* 2 x 2 layer is inside the mask
RuleNearest ==
    [connection_type |-> "divergent", synapse_model |-> "AMPA",
     mask |-> Circular(EngineExtent \div 4), kernel |-> [constant |-> 1000],
     weights |-> [fixed |-> 300], delays |-> [fixed |-> 100]]

RuleGather ==
    [connection_type |-> "convergent", synapse_model |-> "AMPA",
     sources |-> [model |-> "A"],
     mask |-> Circular(2 * EngineExtent), kernel |-> [constant |-> 1000],
     weights |-> [fixed |-> 100], delays |-> Uniform(175, 225)]

RuleSpread ==
    [connection_type |-> "divergent", synapse_model |-> "GABA_A",
     sources |-> [model |-> "A"], targets |-> [model |-> "B"],
     mask |-> Rectangular(<<-(EngineExtent \div 2), -(EngineExtent \div 4)>>,
                          <<EngineExtent \div 2, EngineExtent \div 4>>),
     kernel |-> [constant |-> 500],
     weights |-> [fixed |-> -100], delays |-> Uniform(175, 225)]

RuleNearGather ==
    [connection_type |-> "convergent", synapse_model |-> "AMPA",
     targets |-> [model |-> "A"],
     mask |-> Circular(EngineExtent \div 2),
     kernel |-> Gaussian(800, EngineExtent \div 2),
     weights |-> [fixed |-> 100], delays |-> [fixed |-> 100]]

EngineRules == {RuleNearest, RuleGather, RuleSpread, RuleNearGather}

InitEngine ==
    /\ pc = "engine_new"
    /\ isimBound = TRUE
    /\ lambda_dg = 2
    /\ seed \in Seeds
    /\ npSeed = 0
    /\ npDraws = 0
    /\ KernelReset
    /\ run = 1
    /\ prev = <<>>
    /\ AggIdle
    /\ SimIdle
    /\ GridIdle
    /\ LoadIdle

\* create_layer, twice
EngineCreate ==
    /\ pc = "engine_new"
    /\ \E gs \in 1 .. MaxGrid, gt \in 1 .. MaxGrid, periodic \in BOOLEAN,
          elements \in EngineElements :
          LET p1 == EngineLayer(gs, periodic, elements)
              p2 == EngineLayer(gt, periodic, elements)
              n1 == CreateLayer("L1", p1)
          IN /\ nodes' = n1 \o CreateLayer("L2", p2)
             /\ layers' = ("L1" :> LayerRecord(p1, 1))
                            @@ ("L2" :> LayerRecord(p2, Len(n1) + 1))
             /\ layerProps' = p2
    /\ pc' = "engine"
    /\ UNCHANGED <<isimBound, lambda_dg, seed, npSeed, npDraws, rate, nextLeaf, phase,
                   phaseCalls, connVars, run, prev,
                   simVars, gridVars, loadVars, aggVars>>

\* apply_rules, one rule
EngineApply ==
    /\ pc = "engine"
    /\ Len(callLog) < MaxApps
    /\ \E d \in EngineRules :
          /\ edges' = edges \cup ConnectLayers("L1", "L2", d, Len(callLog) + 1)
          /\ callLog' = Append(callLog, [src |-> "L1", tgt |-> "L2", dict |-> d])
    /\ UNCHANGED <<buildVars, connDict, ip, recorders, detectors, connected, run, prev,
                   simVars, gridVars, loadVars,
                   aggVars>>

NextEngine == EngineCreate \/ EngineApply

SpecEngine == InitEngine /\ [][NextEngine]_vars


(***************************************************************************)
(* The geometry of the script's rules at full size: N = 40 grid locations  *)
(* per side evenly filling visSize, lengths scaled by dpc = visSize/(N-1). *)
(* In the length unit visSize / (2 N (N-1)) the extent is 2N(N-1) = 3120,  *)
(* the grid spacing 2(N-1) = 78 and dpc 2N = 80.                           *)
(***************************************************************************)
\* Params['N'] (line 85)
N == 40

\* layerProps (lines 262-265) with Params['N'] rows and columns
fullProps ==
    [rows |-> N, columns |-> N, extent |-> <<2 * N * (N - 1), 2 * N * (N - 1)>>,
     edge_wrap |-> TRUE]

\* dpc (line 410) at Params['N']
fullDpc == fullProps.extent[1] \div (N - 1)

\* a mask of the script, written in multiples of dpc, at full size
FullMask(mask) ==
    IF Has(mask, "circular")
    THEN Circular((mask.circular.radius \div dpc) * fullDpc)
    ELSE Rectangular(<< (mask.rectangular.lower_left[1] \div dpc) * fullDpc,
                        (mask.rectangular.lower_left[2] \div dpc) * fullDpc >>,
                     << (mask.rectangular.upper_right[1] \div dpc) * fullDpc,
                        (mask.rectangular.upper_right[2] \div dpc) * fullDpc >>)

\* the in-place dictionary after statement i of ConnectScript
RECURSIVE DictAfter(_)
DictAfter(i) ==
    IF i = 0 THEN <<>>
    ELSE CASE ConnectScript[i].op = "assign" -> ConnectScript[i].dict
           [] ConnectScript[i].op = "update" ->
                 Update(DictAfter(i - 1), ConnectScript[i].dict)
           [] OTHER -> DictAfter(i - 1)

\* the dictionary the ConnectLayers calls of statement i are made with
DictInEffect(i) ==
    IF ConnectScript[i].op = "connect" THEN ConnectScript[i].dict ELSE DictAfter(i)

\* grid cells <<row, column>> of a layer of N x N locations
Cells == (0 .. N - 1) \X (0 .. N - 1)

\* the cells a driver is placed in: corners, an edge and the centre
ProbeCells == { <<0, 0>>, <<0, N - 1>>, <<N - 1, N \div 2>>, <<N \div 2, N \div 2>> }

\* the cells of the pool layer whose elements are inside the mask of a driver
\* at cell dr
InsideMask(dr, mask) ==
    { c \in Cells : in_mask(CellPos(fullProps, dr[1], dr[2]),
                            CellPos(fullProps, c[1], c[2]), mask, fullProps) }

InitGrid ==
    /\ pc = "grid"
    /\ isimBound = TRUE
    /\ lambda_dg = 2
    /\ seed = 0
    /\ npSeed = 0
    /\ npDraws = 0
    /\ KernelReset
    /\ run = 1
    /\ prev = <<>>
    /\ AggIdle
    /\ SimIdle
    /\ GridIdle
    /\ LoadIdle

\* one ConnectLayers call of the script, looked at from one driver
GridProbe ==
    /\ pc = "grid"
    /\ \E i \in 1 .. Len(ConnectScript), dr \in ProbeCells :
          /\ ConnectScript[i].calls # <<>>
          /\ \E j \in 1 .. Len(ConnectScript[i].calls) :
                LET d    == DictInEffect(i)
                    mask == FullMask(d.mask)
                IN probe' = [stmt |-> i,
                             src |-> ConnectScript[i].calls[j][1],
                             tgt |-> ConnectScript[i].calls[j][2],
                             connection_type |-> d.connection_type,
                             mask |-> mask, driver |-> dr,
                             inside |-> InsideMask(dr, mask)]
    /\ pc' = "grid_done"
    /\ UNCHANGED <<isimBound, lambda_dg, seed, npSeed, npDraws, rate, layerProps,
                   layers, nodes, nextLeaf, phase, phaseCalls, connVars, run, prev,
                   aggVars, simVars, loadVars>>

NextGrid == GridProbe

SpecGrid == InitGrid /\ [][NextGrid]_vars

(***************************************************************************)
(* The aggregation, src/nsdm_compile_multiple_NEST_simulations.py, lines   *)
(* 126-143, on the activity matrices _all_sim of the loaded runs.  An      *)
(* entry is one (file, neuron, time bin); with k of the N runs active in   *)
(* an entry its mean is k/N and its standard deviation sqrt(k (N-k)) / N,  *)
(* kept here as N * mean = k and N^2 * variance = k (N-k): zero exactly    *)
(* when the deviation is, and ordered as the deviations are.               *)
(***************************************************************************)
Entries == 1 .. NEntries

RECURSIVE Sum(_, _)
Sum(f, n) == IF n = 0 THEN 0 ELSE f[n] + Sum(f, n - 1)

\* number of runs active in entry e
Active(e) == Sum([r \in 1 .. Len(all_sim) |-> all_sim[r][e]], Len(all_sim))

InitAgg ==
    /\ pc = "agg_loaded"
    /\ \E n \in 1 .. MaxRuns : all_sim \in [1 .. n -> [Entries -> {0, 1}]]
    /\ neural_std = <<>>
    /\ results = <<>>
    /\ isimBound = TRUE
    /\ lambda_dg = 2
    /\ seed = 0
    /\ npSeed = 0
    /\ npDraws = 0
    /\ KernelReset
    /\ run = 1
    /\ prev = <<>>
    /\ SimIdle
    /\ GridIdle
    /\ LoadIdle

\* lines 126-132
MeanAndStd ==
    /\ pc = "agg_loaded"
    /\ results' = [N |-> Len(all_sim), mean |-> [e \in Entries |-> Active(e)]]
    /\ neural_std' = [e \in Entries |-> Active(e) * (Len(all_sim) - Active(e))]
    /\ pc' = "agg_std"
    /\ UNCHANGED <<isimBound, lambda_dg, seed, npSeed, npDraws, rate, layerProps,
                   layers, nodes, nextLeaf, phase, phaseCalls, connVars, run, prev,
                   simVars, gridVars, loadVars,
                   all_sim>>

\* np.unique(neural_std.flatten()): the distinct values in ascending order
neural_std_all == Sorted({neural_std[e] : e \in Entries})

\* lines 133-134: neural_std_all[1] is the second smallest value, and indexing
\* it raises IndexError when there is only one
FloorSubstitution ==
    /\ pc = "agg_std"
    /\ IF Len(neural_std_all) < 2
       THEN /\ pc' = "IndexError"
            /\ UNCHANGED neural_std
       ELSE /\ neural_std' = [e \in Entries |->
                                IF neural_std[e] = 0 THEN neural_std_all[2]
                                ELSE neural_std[e]]
            /\ pc' = "agg_subst"
    /\ UNCHANGED <<isimBound, lambda_dg, seed, npSeed, npDraws, rate, layerProps,
                   layers, nodes, nextLeaf, phase, phaseCalls, connVars, run, prev,
                   simVars, gridVars, loadVars,
                   all_sim, results>>

\* lines 135-137: z is mean / std, entry by entry
ZScores ==
    /\ pc = "agg_subst"
    /\ results' =
          Update(results,
                 [z |-> [e \in Entries |->
                           [mean |-> results.mean[e], std |-> neural_std[e]]],
                  t |-> [e \in Entries |->
                           [diff |-> 2 * Active(e) - Len(all_sim),
                            var  |-> Active(e) * (Len(all_sim) - Active(e))]],
                  any |-> [e \in Entries |-> Active(e) > 0]])
    /\ pc' = "agg_done"
    /\ UNCHANGED <<isimBound, lambda_dg, seed, npSeed, npDraws, rate, layerProps,
                   layers, nodes, nextLeaf, phase, phaseCalls, connVars, run, prev,
                   simVars, gridVars, loadVars,
                   all_sim, neural_std>>

NextAgg == MeanAndStd \/ FloorSubstitution \/ ZScores

SpecAgg == InitAgg /\ [][NextAgg]_vars

(***************************************************************************)
(* The aggregation script, lines 35-122: loading the spike files.  A spike *)
(* file is the set of its events [sender, time]; times are in 1/10 ms, the *)
(* resolution of the simulation.                                           *)
(***************************************************************************)
\* line 68
ntime == 40
\* the rounding unit of nneurons, line 59
NeuronRound == 100
\* files found by the two globs together
MaxFiles == 2
\* events per file
MaxSpikes == 2

\* sender ids and event times (0.3 ms, 20.4 ms, 39.8 ms, all within one run
\* of simtime = 40 ms) a file may hold
SenderIds == {1, 100, 101}
SpikeTimes == {3, 204, 398}
SpikeFiles == {f \in SUBSET [sender : SenderIds, time : SpikeTimes] :
                  Cardinality(f) <= MaxSpikes}

SetMin(S) == CHOOSE x \in S : \A y \in S : x <= y
SetMax(S) == CHOOSE x \in S : \A y \in S : x >= y

\* np.round of a time given in 1/10 ms to whole ms: halves go to the even
\* neighbour
NpRound(t) ==
    LET q == t \div 10
        r == t % 10
    IN IF r < 5 THEN q
       ELSE IF r > 5 THEN q + 1
       ELSE IF q % 2 = 0 THEN q ELSE q + 1

\* line 59: np.ceil((max(sd) - min(sd) + 1)/100.)*100.
NNeuronsOf(f) ==
    LET sd == {e.sender : e \in f}
    IN (((SetMax(sd) - SetMin(sd)) + NeuronRound) \div NeuronRound) * NeuronRound

\* lines 94-98 (and 51-54): min(ts), and min(np.diff(np.unique(ts))), raise
\* ValueError on an empty sequence
TimesFail(ts) == Cardinality(ts) < 2

\* lines 110-111: the index pairs of this_neurons[sd-min(sd), ts-mint]
IndexPairs(f) ==
    LET sd   == {e.sender : e \in f}
        mint == SetMin({NpRound(e.time) : e \in f})
    IN {<<e.sender - SetMin(sd), NpRound(e.time) - mint>> : e \in f}

InitLoad ==
    /\ pc = "load_first"
    /\ \E n \in 1 .. MaxFiles : files \in [1 .. n -> SpikeFiles]
    /\ nneurons = 0
    /\ loaded = <<>>
    /\ isimBound = TRUE
    /\ lambda_dg = 2
    /\ seed = 0
    /\ npSeed = 0
    /\ npDraws = 0
    /\ KernelReset
    /\ run = 1
    /\ prev = <<>>
    /\ AggIdle
    /\ SimIdle
    /\ GridIdle

\* lines 43-70: the first file of the first folder fixes nneurons
LoadFirst ==
    /\ pc = "load_first"
    /\ IF TimesFail({e.time : e \in files[1]})
       THEN /\ pc' = "ValueError"
            /\ UNCHANGED nneurons
       ELSE /\ nneurons' = NNeuronsOf(files[1])
            /\ pc' = "load_loop"
    /\ UNCHANGED <<isimBound, lambda_dg, seed, npSeed, npDraws, rate, layerProps,
                   layers, nodes, nextLeaf, phase, phaseCalls, connVars, run, prev,
                   aggVars, simVars, gridVars, files, loaded>>

\* lines 72-122, one file of the loop: an index of line 111 that is not
\* below the size of its axis raises IndexError
LoadFile ==
    /\ pc = "load_loop"
    /\ LET f == files[Len(loaded) + 1]
       IN IF TimesFail({NpRound(e.time) : e \in f})
          THEN /\ pc' = "ValueError"
               /\ UNCHANGED loaded
          ELSE IF \E rc \in IndexPairs(f) : rc[1] >= nneurons \/ rc[2] >= ntime
          THEN /\ pc' = "IndexError"
               /\ UNCHANGED loaded
          ELSE /\ loaded' = Append(loaded, IndexPairs(f))
               /\ pc' = IF Len(loaded') = Len(files) THEN "agg_loaded" ELSE "load_loop"
    /\ UNCHANGED <<isimBound, lambda_dg, seed, npSeed, npDraws, rate, layerProps,
                   layers, nodes, nextLeaf, phase, phaseCalls, connVars, run, prev,
                   aggVars, simVars, gridVars, files, nneurons>>

NextLoad == LoadFirst \/ LoadFile

SpecLoad == InitLoad /\ [][NextLoad]_vars

(***************************************************************************)
(* Properties.                                                             *)
(***************************************************************************)
\* element g exists, lies in the layer and is of the type the rule's
\* 'sources' / 'targets' entry names (any type when there is no entry)
Eligible(g, name, d, side) ==
    /\ g \in 1 .. Len(nodes)
    /\ nodes[g].kind = "neuron"
    /\ nodes[g].layer = name
    /\ Has(d, side) => nodes[g].model = d[side].model

EligibleSet(name, d, side) == {g \in 1 .. Len(nodes) : Eligible(g, name, d, side)}

EdgesOf(k) == {e \in edges : e.app = k}

Convergent(k) == callLog[k].dict.connection_type = "convergent"

\* the end of an edge of call k that was the driver, and the other one
DriverEnd(e, k) == IF Convergent(k) THEN e.target ELSE e.source

CandidateEnd(e, k) == IF Convergent(k) THEN e.source ELSE e.target

DriverSet(k) ==
    IF Convergent(k)
    THEN EligibleSet(callLog[k].tgt, callLog[k].dict, "targets")
    ELSE EligibleSet(callLog[k].src, callLog[k].dict, "sources")

CandidateSet(k) ==
    IF Convergent(k)
    THEN EligibleSet(callLog[k].src, callLog[k].dict, "sources")
    ELSE EligibleSet(callLog[k].tgt, callLog[k].dict, "targets")

\* C1: every edge of every ConnectLayers call of the script, divergent or
\* convergent, leads from an element of the call's source layer that is of
\* the rule's source type to an element of its target layer that is of the
\* rule's target type; the thalamocortical calls (Tp to Vp_h / Vp_v,
\* convergent) lead from TpRelay elements of Tp to elements of the cortical
\* population, never from the co-located TpInter.
C1_EdgeEndpointsTyped ==
    \A e \in edges :
        LET call == callLog[e.app] IN
        /\ Eligible(e.source, call.src, call.dict, "sources")
        /\ Eligible(e.target, call.tgt, call.dict, "targets")
        /\ (call.src = "Tp" /\ call.tgt \in {"Vp_h", "Vp_v"})
              => /\ call.dict.connection_type = "convergent"
                 /\ nodes[e.source].layer = "Tp"
                 /\ nodes[e.source].model = "TpRelay"
                 /\ nodes[e.target].layer = call.tgt

C1_Witness ==
    /\ \E e \in edges :
          /\ Convergent(e.app)
          /\ callLog[e.app].src = "Tp"
          /\ nodes[e.source].model = "TpRelay"
    /\ \E e \in edges :
          /\ ~ Convergent(e.app)
          /\ Has(callLog[e.app].dict, "sources")
          /\ Has(callLog[e.app].dict, "targets")

\* elements per grid cell that the script declares for a population
PerCell(name) ==
    CASE name = "retina" -> 1
      [] name = "Tp" -> 2
      [] name = "Rp" -> 1
      [] name \in {"Vp_h", "Vp_v"} -> 9

\* C2: a created layer holds rows * columns * (elements per cell) elements
\* with distinct ids, 9 per cell in Vp_h and Vp_v (2 pyramidal and 1
\* inhibitory in each of L23, L4, L56), 2 in Tp, 1 in Rp and in the retina;
\* the elements of one cell share one position, the cell of row 0, column 0
\* is centred half a spacing inside the corner of the extent and the others
\* follow at extent/columns and extent/rows: the positions are a function of
\* the grid alone, whatever the seeds drawn.
C2_CreateLayerGrid ==
    \A name \in DOMAIN layers :
        LET L   == layers[name]
            ids == Leaves(name)
            dx  == L.extent[1] \div L.columns
            dy  == L.extent[2] \div L.rows
        IN /\ Cardinality(ids) = L.rows * L.columns * PerCell(name)
           /\ \A r \in 0 .. L.rows - 1, c \in 0 .. L.columns - 1 :
                 Cardinality({g \in ids : nodes[g].cell = <<r, c>>}) = PerCell(name)
           /\ name \in {"Vp_h", "Vp_v"} =>
                 \A r \in 0 .. L.rows - 1, c \in 0 .. L.columns - 1 :
                    \A m \in {"L23pyr", "L4pyr", "L56pyr", "L23in", "L4in", "L56in"} :
                       Cardinality({g \in ids : /\ nodes[g].cell = <<r, c>>
                                                /\ nodes[g].model = m})
                          = IF m \in {"L23pyr", "L4pyr", "L56pyr"} THEN 2 ELSE 1
           /\ \A g \in ids :
                 /\ 2 * nodes[g].pos[1] = (2 * nodes[g].cell[2] + 1) * dx - L.extent[1]
                 /\ 2 * nodes[g].pos[2] = L.extent[2] - (2 * nodes[g].cell[1] + 1) * dy
           /\ \A g, h \in ids :
                 (nodes[g].cell = nodes[h].cell) <=> (nodes[g].pos = nodes[h].pos)

C2_Witness ==
    /\ DOMAIN layers = {"retina", "Tp", "Rp", "Vp_h", "Vp_v"}
    /\ Cardinality(Leaves("Vp_v")) > Cardinality(Leaves("Tp"))

\* call k has a constant kernel of 1.0 and a mask no candidate falls out of
FullRule(k) ==
    LET d == callLog[k].dict
        L == layers[IF Convergent(k) THEN callLog[k].src ELSE callLog[k].tgt]
    IN /\ Has(d.kernel, "constant")
       /\ d.kernel.constant = 1000
       /\ \A dr \in DriverSet(k), c \in CandidateSet(k) :
             in_mask(nodes[dr].pos, nodes[c].pos, d.mask, L)

\* C3: one application of a rule with constant kernel 1.0 and an
\* all-inclusive mask emits, for every driver and every eligible candidate,
\* exactly one edge, so the fan-out of each driver is the candidate count.
C3_FullKernelFanOut ==
    \A k \in 1 .. Len(callLog) :
        FullRule(k) =>
            LET E == EdgesOf(k)
                D == DriverSet(k)
                C == CandidateSet(k)
            IN \* every eligible pair is connected, and by no more than one edge
               /\ {<<DriverEnd(e, k), CandidateEnd(e, k)>> : e \in E} = D \X C
               /\ Cardinality(E) = Cardinality(D) * Cardinality(C)
               /\ \A dr \in D :
                     Cardinality({e \in E : DriverEnd(e, k) = dr}) = Cardinality(C)

C3_Witness ==
    \E k \in 1 .. Len(callLog) :
        /\ FullRule(k)
        /\ Cardinality(DriverSet(k)) >= 2
        /\ Cardinality(CandidateSet(k)) >= 2
        /\ Cardinality(CandidateSet(k)) < Cardinality(Leaves(callLog[k].src))
        /\ \E e1, e2 \in EdgesOf(k) : e1 # e2 /\ nodes[e1.source].pos = nodes[e1.target].pos

\* the layer is a 2 x 2 grid without wrap and with one element per cell
Plain2x2(name) ==
    /\ layers[name].rows = 2
    /\ layers[name].columns = 2
    /\ ~ layers[name].edge_wrap
    /\ Cardinality(Leaves(name)) = 4

\* call k is the end-to-end rule: divergent, unfiltered, a circular mask
\* shorter than the grid spacing, constant kernel 1.0, weight 3.0, delay 1.0
EndToEndRule(k) ==
    LET d == callLog[k].dict IN
    /\ d.connection_type = "divergent"
    /\ ~ Has(d, "sources")
    /\ ~ Has(d, "targets")
    /\ Has(d.mask, "circular")
    /\ 2 * d.mask.circular.radius < layers[callLog[k].tgt].extent[1]
    /\ Has(d.kernel, "constant")
    /\ d.kernel.constant = 1000
    /\ d.weights = [fixed |-> 300]
    /\ d.delays = [fixed |-> 100]

\* C4: the end-to-end rule between two 2 x 2 layers without wrap yields
\* exactly 4 edges, one from each source element to the target element at
\* its own position, each of weight 3.0 and delay 1.0.
C4_EndToEnd ==
    \A k \in 1 .. Len(callLog) :
        (EndToEndRule(k) /\ Plain2x2(callLog[k].src) /\ Plain2x2(callLog[k].tgt))
            => /\ Cardinality(EdgesOf(k)) = 4
               /\ \A g \in Leaves(callLog[k].src) :
                     Cardinality({e \in EdgesOf(k) : e.source = g}) = 1
               /\ \A e \in EdgesOf(k) :
                     /\ nodes[e.source].layer = callLog[k].src
                     /\ nodes[e.target].layer = callLog[k].tgt
                     /\ nodes[e.source].pos = nodes[e.target].pos
                     /\ e.weight = 300
                     /\ e.delay = 100

C4_Witness ==
    \E k \in 1 .. Len(callLog) :
        /\ EndToEndRule(k)
        /\ Plain2x2(callLog[k].src)
        /\ Plain2x2(callLog[k].tgt)
        /\ EdgesOf(k) # {}

\* the (source, target) pairs call k connected
Pairs(k) == {<<e.source, e.target>> : e \in EdgesOf(k)}

\* C5: a rule application leaves every earlier edge in the graph as it was
\* and the edge count never decreases; nothing is de-duplicated: a later
\* application of a rule with constant kernel 1.0 connects the same pairs
\* as its earlier application did, in parallel to the edges already there.
C5_AppendOnly ==
    /\ [][/\ edges \subseteq edges'
          /\ Cardinality(edges') >= Cardinality(edges)
          /\ \A e \in edges' \ edges : e.app = Len(callLog')]_vars
    /\ [](\A j, k \in 1 .. Len(callLog) :
             (/\ j < k
              /\ callLog[j].dict = callLog[k].dict
              /\ Has(callLog[k].dict.kernel, "constant")
              /\ callLog[k].dict.kernel.constant = 1000)
                 => /\ Pairs(k) = Pairs(j)
                    /\ Cardinality(EdgesOf(k)) = Cardinality(EdgesOf(j)))

C5_Witness ==
    \E e1, e2 \in edges :
        /\ e1.app < e2.app
        /\ e1.source = e2.source
        /\ e1.target = e2.target

\* C6: two builds of one configuration that run with the same grng seed
\* produce the same retina rate, the same phases and the same edges.
C6_SameSeedSameBuild ==
    (run = 2 /\ pc = "simulate" /\ seed = prev.seed)
        => /\ rate = prev.rate
           /\ phase = prev.phase
           /\ edges = prev.edges

\* the positions elements of the network lie at
Positions == {nodes[g].pos : g \in {h \in 1 .. Len(nodes) : nodes[h].kind = "neuron"}}

\* C7: in a periodic layer the minimum-image distance of two positions is
\* at most their distance without wrap, and equal to it when their offset
\* is at most half the extent on both axes.
C7_MinImageDistance ==
    \A name \in DOMAIN layers :
        layers[name].edge_wrap =>
            LET L == layers[name]
                P == Positions
            IN \A a, b \in P :
                  /\ distance2(a, b, L) <= plainDistance2(a, b)
                  /\ (/\ 2 * Abs(b[1] - a[1]) <= L.extent[1]
                      /\ 2 * Abs(b[2] - a[2]) <= L.extent[2])
                        => distance2(a, b, L) = plainDistance2(a, b)

C7_Witness ==
    \E name \in DOMAIN layers :
        /\ layers[name].edge_wrap
        /\ \E a, b \in Positions :
              distance2(a, b, layers[name]) < plainDistance2(a, b)
        /\ \E a, b \in Positions :
              /\ a # b
              /\ distance2(a, b, layers[name]) = plainDistance2(a, b)

\* the comprehension of lines 278-291 is over, normally or by an exception
PhaseInitOver == pc \notin {"seed", "folder", "model", "retina", "phase", "NameError"}

\* C8: once the phase initialisation is over, phaseInit has been invoked
\* exactly once for each retina element, with that element's position.
C8_PhaseInitOncePerElement ==
    PhaseInitOver =>
        \A n \in Leaves("retina") :
            /\ Cardinality({i \in 1 .. Len(phaseCalls) : phaseCalls[i].node = n}) = 1
            /\ \A i \in 1 .. Len(phaseCalls) :
                  phaseCalls[i].node = n => phaseCalls[i].pos = nodes[n].pos

\* C9: when phaseInit raises for an element, the other elements are still
\* initialised: once the initialisation is over, every retina element has
\* its phase set or is one whose own call raised.
C9_FailureDoesNotAbort ==
    PhaseInitOver =>
        \A n \in Leaves("retina") :
            \/ n \in DOMAIN phase
            \/ \E i \in 1 .. Len(phaseCalls) :
                  phaseCalls[i].node = n /\ phaseCalls[i].lam.v = 0

\* C10: the floor substitution never fails, and after it no entry of the
\* standard deviation is zero.
C10_FloorSubstitutionTotal ==
    /\ pc # "IndexError"
    /\ pc \in {"agg_subst", "agg_done"} => \A e \in Entries : neural_std[e] # 0

\* C11: every ConnectLayers call of the script is made with a dictionary
\* whose weight is negative exactly when its synapse model is GABA_A and
\* positive exactly when it is AMPA, the calls made with the dictionaries
\* that are updated in place included.
C11_WeightSignMatchesSynapse ==
    \A k \in 1 .. Len(callLog) :
        LET d == callLog[k].dict IN
        /\ Has(d, "synapse_model")
        /\ Has(d, "weights")
        /\ Has(d.weights, "fixed")
        /\ d.synapse_model \in {"AMPA", "GABA_A"}
        /\ (d.weights.fixed < 0) <=> (d.synapse_model = "GABA_A")
        /\ (d.weights.fixed > 0) <=> (d.synapse_model = "AMPA")

C11_Witness ==
    /\ pc = "simulate"
    /\ \E j, k \in 1 .. Len(callLog) :
          /\ j < k
          /\ callLog[j].src = "Tp" /\ callLog[j].tgt = "Rp"
          /\ callLog[j].dict.synapse_model = "AMPA"
          /\ callLog[k].src = "Rp" /\ callLog[k].tgt = "Rp"
          /\ callLog[k].dict.synapse_model = "GABA_A"
          /\ callLog[k].dict.weights.fixed < 0

\* C12: the corticothalamic calls (from Vp_h and Vp_v to Tp) are made with
\* the parameters of corThalBase: AMPA, weight 1.0, circular mask of radius
\* 5 dpc, gaussian kernel with p_center 0.5, delays uniform in [7.5, 8.5].
C12_CorticothalamicBase ==
    \A k \in 1 .. Len(callLog) :
        (callLog[k].src \in {"Vp_h", "Vp_v"} /\ callLog[k].tgt = "Tp") =>
            LET d == callLog[k].dict IN
            /\ d.sources = [model |-> "L56pyr"]
            /\ d.targets.model \in {"TpRelay", "TpInter"}
            /\ d.synapse_model = "AMPA"
            /\ d.weights = [fixed |-> 100]
            /\ d.mask = Circular(5 * dpc)
            /\ Has(d.kernel, "gaussian")
            /\ d.kernel.gaussian.p_center = 500
            /\ d.delays = Uniform(750, 850)

\* toroidal offset, in grid cells, between indices a and b of one axis
GridOffset(a, b) == Min2(Abs(a - b), N - Abs(a - b))

\* C13: at N = 40 the Tp locations inside the rectangular mask of a target
\* are 8 columns by 2 rows for the calls into Vp_h and 2 columns by 8 rows
\* for the calls into Vp_v.
C13_ThalamocorticalMaskCells ==
    (probe # <<>> /\ Has(probe.mask, "rectangular")) =>
        LET cols == {c[2] : c \in probe.inside}
            rows == {c[1] : c \in probe.inside}
        IN /\ probe.src = "Tp"
           /\ probe.tgt \in {"Vp_h", "Vp_v"}
           /\ probe.tgt = "Vp_h" => Cardinality(cols) = 8 /\ Cardinality(rows) = 2
           /\ probe.tgt = "Vp_v" => Cardinality(cols) = 2 /\ Cardinality(rows) = 8

\* C17: at N = 40 a circular mask of radius k dpc holds exactly the cells at
\* a toroidal grid offset (dx, dy) with dx^2 + dy^2 <= k^2, for the radii
\* k = 1, 2, 5, 7, 12 of the script.
C17_CircularMaskCells ==
    (probe # <<>> /\ Has(probe.mask, "circular")) =>
        LET k == probe.mask.circular.radius \div fullDpc IN
        /\ k \in {1, 2, 5, 7, 12}
        /\ probe.inside =
              { c \in Cells :
                   LET dx == GridOffset(c[2], probe.driver[2])
                       dy == GridOffset(c[1], probe.driver[1])
                   IN dx * dx + dy * dy <= k * k }

\* number of ConnectLayers calls the statements before statement i make
RECURSIVE CallsBefore(_)
CallsBefore(i) ==
    IF i <= 1 THEN 0 ELSE CallsBefore(i - 1) + Len(ConnectScript[i - 1].calls)

\* the statement of ConnectScript that makes the k-th ConnectLayers call
CallStmt ==
    [k \in 1 .. CallsBefore(Len(ConnectScript) + 1) |->
        CHOOSE i \in 1 .. Len(ConnectScript) :
            /\ CallsBefore(i) < k
            /\ k <= CallsBefore(i) + Len(ConnectScript[i].calls)]

\* number of calls made before the loop over the intra-thalamic connections
ThalFirstCall == CallsBefore(Len(CortexStatements) + Len(ThalCorStatements) + 2)

\* C16: each of the six intra-thalamic calls is made with the synapse_model
\* and the weights its own connection dictionary declares (and with its
\* layers), so a connection declared GABA_A with weight -1.0 is passed as
\* GABA_A with weight -1.0.
C16_ThalamicDeclaredSynapse ==
    \A i \in 1 .. Len(thalConns) :
        (ThalFirstCall + i <= Len(callLog)) =>
            LET call == callLog[ThalFirstCall + i]
                conn == thalConns[i].conn
            IN /\ call.src = thalConns[i].src
               /\ call.tgt = thalConns[i].tgt
               /\ Has(conn, "synapse_model")
               /\ Has(conn, "weights")
               /\ call.dict.synapse_model = conn.synapse_model
               /\ call.dict.weights = conn.weights
               /\ (conn.synapse_model = "GABA_A" /\ conn.weights = [fixed |-> -100])
                     => (call.dict.synapse_model = "GABA_A"
                            /\ call.dict.weights.fixed = -100)

C16_Witness ==
    /\ Len(callLog) >= ThalFirstCall + Len(thalConns)
    /\ callLog[ThalFirstCall + 1].dict.synapse_model = "AMPA"
    /\ callLog[ThalFirstCall + 2].dict.synapse_model = "GABA_A"
    /\ callLog[ThalFirstCall + Len(thalConns)].src = "Rp"
    /\ callLog[ThalFirstCall + Len(thalConns)].tgt = "Rp"

\* the dictionary that was assigned to the in-place name statement i updates
RECURSIVE BaseOf(_)
BaseOf(i) ==
    IF i = 0 THEN <<>>
    ELSE IF ConnectScript[i].op = "assign" THEN ConnectScript[i].dict ELSE BaseOf(i - 1)

\* what is declared for the connection of statement i: the assigned
\* dictionary with the connection's own entries
Declared == [i \in 1 .. Len(ConnectScript) |-> Update(BaseOf(i), ConnectScript[i].dict)]

\* the calls made with a dictionary that is updated in place
InPlaceCalls == {k \in 1 .. Len(callLog) : ConnectScript[CallStmt[k]].op = "update"}

\* C18: a call made with a dictionary that is updated in place has exactly
\* the source and target filters declared for its connection, a side that
\* is not declared being unfiltered, and its driver and candidate sets are
\* not empty.
C18_NoFilterCarryOver ==
    \A k \in InPlaceCalls :
        LET d   == callLog[k].dict
            dec == Declared[CallStmt[k]]
        IN /\ \A side \in {"sources", "targets"} :
                 /\ Has(d, side) <=> Has(dec, side)
                 /\ Has(d, side) /\ Has(dec, side) => d[side] = dec[side]
           /\ DriverSet(k) # {}
           /\ CandidateSet(k) # {}

\* the devices of a kind that are connected to the network under a name
ConnectedAs(kind, name) == {c.device : c \in {x \in connected : x.kind = kind /\ x.name = name}}

\* C14: when the script has built the network, one multimeter exists for
\* each of the four recorded populations and one spike detector for each
\* of the nine detected ones, each connected to the elements of its
\* population that are of its model, and every connected device is the one
\* the dictionaries recorders / detectors retain.
C14_OneDevicePerPopulation ==
    pc \in {"simulate", "done"} =>
        /\ Cardinality({g \in 1 .. Len(nodes) : nodes[g].model = "RecordingNode"})
              = Len(RecorderTable)
        /\ Cardinality({g \in 1 .. Len(nodes) : nodes[g].model = "spike_detector"})
              = Len(DetectorTable)
        /\ \A i \in 1 .. Len(RecorderTable) :
              ConnectedAs("RecordingNode", RecorderTable[i][1])
                 = {recorders[RecorderTable[i][1]]}
        /\ \A i \in 1 .. Len(DetectorTable) :
              ConnectedAs("spike_detector", DetectorTable[i][1])
                 = {detectors[DetectorTable[i][1]]}
        /\ \A c \in connected :
              \E t \in {RecorderTable[i] : i \in 1 .. Len(RecorderTable)}
                         \cup {DetectorTable[i] : i \in 1 .. Len(DetectorTable)} :
                 /\ t[1] = c.name
                 /\ c.tgts = {g \in 1 .. Len(nodes) : /\ nodes[g].kind = "neuron"
                                                      /\ nodes[g].layer = t[2]
                                                      /\ nodes[g].model = t[3]}

\* C15: the files of run isim are written under the folder sim_<isim>_...,
\* the run index being bound when the name is computed, so no two runs
\* write to one folder.
C15_FolderPerRun ==
    /\ pc # "NameError"
    /\ \A i \in 1 .. Len(written) : written[i].folder = [isim |-> written[i].run]
    /\ \A i, j \in 1 .. Len(written) : i # j => written[i].folder # written[j].folder

\* C20: the data saved at the end of run k holds only events of run k, so
\* all of it lies in one window of length simtime.
C20_SavedEventsOfOwnRun ==
    \A i \in 1 .. Len(written) : written[i].events \subseteq {written[i].run}

\* C19: every file the loading loop reads is entered in its activity
\* matrix without an index out of bounds: each row index sender - min(sender)
\* is below nneurons, fixed by the first file, and each column index
\* round(time) - min(round(time)) is below ntime = 40.
C19_LoadIndicesInBounds ==
    /\ pc # "IndexError"
    /\ \A i \in 1 .. Len(loaded) :
          \A rc \in loaded[i] : rc[1] \in 0 .. (nneurons - 1) /\ rc[2] \in 0 .. (ntime - 1)

====
